---- MODULE Spec2Model ----
(***************************************************************************)
(* Model of pre_commit/repository.py: the Repository lifecycle             *)
(* (require_created / create, manifest / hooks / languages, install /      *)
(* require_installed, run_hook) over a shared hooks workspace on disk.     *)
(*                                                                         *)
(* Every Repository instance is a process with a stack of frames; a frame  *)
(* is the label of the next statement of a method of the class.  One       *)
(* action executes one statement group up to its next access to the disk   *)
(* or to a collaborator (git, load_manifest, a language backend).          *)
(***************************************************************************)
EXTENDS Integers, Sequences, FiniteSets, TLC

(***************************************************************************)
(* Bounds of the model.                                                    *)
(***************************************************************************)
\* a new call on an instance is started only while it invoked clone fewer times
MaxClones == 2
\* a new call is started only while the instance invoked load_manifest fewer times
MaxLoads == 2
\* a new call is started only while the instance invoked install_environment fewer times
MaxInstalls == 3

Procs == {1, 2}

Ids == {"x", "y"}

Langs == {"python", "node", "script"}

FileLists == {<<>>, <<"a.txt">>}

\* values of the args field: the manifest's and a caller's override
ManifestArgs == <<>>
OverrideArgs == <<"--fix">>

EmptyMap == [i \in {} |-> i]

(***************************************************************************)
(* The language registry (pre_commit.languages.all): ENVIRONMENT_DIR of    *)
(* each backend, "none" for a backend that needs no environment.           *)
(***************************************************************************)
ENVIRONMENT_DIR(l) ==
    CASE l = "python" -> "py_env"
      [] l = "node" -> "node_env"
      [] OTHER -> "none"

(***************************************************************************)
(* Inputs.  A manifest file is the sequence of records load_manifest       *)
(* returns (unique ids, each with a language), or is malformed.  A         *)
(* repo_config carries the declared hooks: records with an id and, when    *)
(* the caller overrides it, args.                                          *)
(***************************************************************************)
\* the languages the manifests of the model give each hook id
LangsOf(i) == IF i = "x" THEN {"python", "script"} ELSE {"node", "python"}

ManifestEntries ==
    {[id |-> i, language |-> l, args |-> ManifestArgs] : i \in Ids, l \in Langs}

\* the manifests of the model: none, x alone, x then y

ManifestFiles ==
    LET X == {m \in ManifestEntries : m.id = "x" /\ m.language \in LangsOf("x")}
        Y == {m \in ManifestEntries : m.id = "y" /\ m.language \in LangsOf("y")}
    IN {<<>>} \cup {<<e>> : e \in X} \cup {<<e, f>> : e \in X, f \in Y}

DeclaredHooks == {[id |-> i] : i \in Ids} \cup {[id |-> i, args |-> OverrideArgs] : i \in Ids}

\* the declared hook lists of the model: none, x alone, x then y
RepoConfigs ==
    {<<>>} \cup {<<h>> : h \in {d \in DeclaredHooks : d.id = "x"}}
           \cup {<<h, g>> \in DeclaredHooks \X DeclaredHooks : h.id = "x" /\ g.id = "y"}

VARIABLES
    dir,            \* the directory <workspace>/<sha>: "absent", "junk", "cloned", "ready"
    markers,        \* languages whose ENVIRONMENT_DIR exists under <workspace>/<sha>
    manifestFile,   \* <<TRUE, records>> or <<FALSE, <<>>>>: content of hooks.yaml at sha
    repo_config,    \* repo_config['hooks']
    active,         \* the instances (processes) that run
    disk0,          \* <<dir, markers>> as the first call found them
    workload,       \* what the callers do: [ops, once] (the methods called, one call each)
    created,        \* self.__created
    installed,      \* self.__installed
    cached,         \* names of the cached properties stored in the instance __dict__
    manifest,       \* value of the cached property manifest
    hooks,          \* value of the cached property hooks: [order, map]
    languages,      \* value of the cached property languages
    stk,            \* frames, innermost last
    exc,            \* exception in flight, "none" if none
    cwd,            \* working directories entered by the context managers, innermost last
    todo,           \* languages the loop of install has not visited yet
    cur,            \* the current or last call: [op, id, files, status, err, result]
    start,          \* what held when the current call started
    log,            \* collaborator calls of the current call
    total           \* collaborator calls of the instance over all calls

vars == <<dir, markers, manifestFile, repo_config, active, disk0, workload, created, installed, cached,
          manifest, hooks, languages, stk, exc, cwd, todo, cur, start, log, total>>

inputVars == <<manifestFile, repo_config, active, disk0, workload>>

(***************************************************************************)
(* Pure parts of the properties.                                           *)
(***************************************************************************)
\* dict(a, **b): the keys of both, the values of b where both have the key
DictUpdate(a, b) ==
    [f \in (DOMAIN a) \cup (DOMAIN b) |-> IF f \in DOMAIN b THEN b[f] ELSE a[f]]

\* dict((hook['id'], hook) for hook in load_manifest(C.MANIFEST_FILE))
RECURSIVE ManifestDict(_)
ManifestDict(recs) ==
    IF recs = <<>> THEN EmptyMap
    ELSE LET rest == ManifestDict(Tail(recs))
             h == Head(recs)
         IN [i \in {h.id} \cup DOMAIN rest |-> IF i \in DOMAIN rest THEN rest[i] ELSE h]

\* the effective hook of one declared hook: dict(hook, **self.manifest[hook['id']])
EffectiveHook(hook, mf) == DictUpdate(hook, mf[hook.id])

\* OrderedDict((hook['id'], EffectiveHook) for hook in repo_config['hooks'])
RECURSIVE HooksDict(_, _)
HooksDict(cfg, mf) ==
    IF cfg = <<>> THEN [order |-> <<>>, map |-> EmptyMap]
    ELSE LET n == Len(cfg)
             init == HooksDict(SubSeq(cfg, 1, n - 1), mf)
             h == cfg[n]
         IN [order |-> IF h.id \in DOMAIN init.map THEN init.order
                       ELSE Append(init.order, h.id),
             map |-> [i \in {h.id} \cup DOMAIN init.map |->
                         IF i = h.id THEN EffectiveHook(h, mf) ELSE init.map[i]]]

\* the ids of repo_config['hooks'] that self.manifest[...] cannot find
MissingIds(cfg, mf) == {cfg[k].id : k \in 1..Len(cfg)} \ DOMAIN mf

\* set(hook['language'] for hook in self.hooks.values())
LanguagesOf(hk) == {hk.map[i].language : i \in DOMAIN hk.map}

(***************************************************************************)
(* pre_commit.util.clean_path_on_failure: on an exception the path is      *)
(* removed if it exists (with everything under it) and the exception       *)
(* goes on.  Gives the directory and the markers left.                     *)
(***************************************************************************)
clean_path_on_failure(d, m) == IF d # "absent" THEN <<"absent", {}>> ELSE <<d, m>>

(***************************************************************************)
(* pre_commit.hooks_workspace.in_hooks_workspace and plumbum's local.cwd:  *)
(* context managers that enter a working directory and, when the block     *)
(* exits by return or by exception, go back to the one before.  c is the   *)
(* sequence of directories entered, innermost last.                        *)
(***************************************************************************)
in_hooks_workspace(c) == Append(c, "workspace")

local_cwd(c, d) == Append(c, d)

\* the with block of a context manager exits
exit_context(c) == SubSeq(c, 1, Len(c) - 1)

(***************************************************************************)
(* pre_commit.util.cached_property: the value a property computed is       *)
(* stored in the instance __dict__ when the computation returns, and read  *)
(* from there afterwards; nothing is stored when it raises.                *)
(***************************************************************************)
cached_property(p, name) == name \in cached[p]

(***************************************************************************)
(* Frame and bookkeeping helpers.                                          *)
(***************************************************************************)
Top(p) == stk[p][Len(stk[p])]

At(p, label) == p \in active /\ stk[p] # <<>> /\ exc[p] = "none" /\ Top(p) = label

Front(s) == SubSeq(s, 1, Len(s) - 1)

\* the frame returns
Pop(p) == [stk EXCEPT ![p] = Front(@)]

\* the frame goes on at label
Goto(p, label) == [stk EXCEPT ![p] = Append(Front(@), label)]

\* the frame goes on at label after the call of the method starting at callee
CallThen(p, label, callee) == [stk EXCEPT ![p] = Append(Append(Front(@), label), callee)]

\* status of the call once a frame returns or an exception leaves it
Finish(p, newstk, err, result) ==
    IF newstk[p] = <<>>
    THEN [cur EXCEPT ![p].status = IF err = "none" THEN "returned" ELSE "raised",
                     ![p].err = err, ![p].result = result]
    ELSE cur

NoLog == [clones |-> 0, checkouts |-> 0, checkoutFailed |-> FALSE, loads |-> 0,
          installs |-> <<>>, installFailed |-> FALSE, skipped |-> {}, runs |-> <<>>]

NoTotal == [clones |-> 0, checkouts |-> 0, loads |-> 0, installs |-> 0,
            called |-> FALSE, onlyCreate |-> TRUE, raised |-> FALSE,
            passed |-> {}, okInstalls |-> {}, repeated |-> {}, again |-> {},
            skipped |-> {}]

NoCall == [op |-> "none", id |-> "x", files |-> <<>>, status |-> "idle", err |-> "none",
           result |-> -1]

NoStart == [dir |-> "absent", created |-> FALSE, installed |-> FALSE, markers |-> {},
            cached |-> {}, first |-> TRUE, prevErr |-> "none"]

\* the methods and properties a caller uses
Ops == {"create", "require_created", "manifest", "hooks", "languages", "install",
        "require_installed", "run_hook"}

Init ==
    /\ \E f \in ManifestFiles : manifestFile \in {<<TRUE, f>>, <<FALSE, <<>>>>}
    /\ repo_config \in RepoConfigs
    /\ active = {1}
    /\ workload = [ops |-> Ops, once |-> FALSE]
    /\ \/ dir = "absent" /\ markers = {}
       \/ dir = "ready" /\ markers \in SUBSET {l \in Langs : ENVIRONMENT_DIR(l) # "none"}
    /\ disk0 = <<dir, markers>>
    /\ created = [p \in Procs |-> FALSE]
    /\ installed = [p \in Procs |-> FALSE]
    /\ cached = [p \in Procs |-> {}]
    /\ manifest = [p \in Procs |-> EmptyMap]
    /\ hooks = [p \in Procs |-> [order |-> <<>>, map |-> EmptyMap]]
    /\ languages = [p \in Procs |-> {}]
    /\ stk = [p \in Procs |-> <<>>]
    /\ exc = [p \in Procs |-> "none"]
    /\ cwd = [p \in Procs |-> <<>>]
    /\ todo = [p \in Procs |-> {}]
    /\ cur = [p \in Procs |-> NoCall]
    /\ start = [p \in Procs |-> NoStart]
    /\ log = [p \in Procs |-> NoLog]
    /\ total = [p \in Procs |-> NoTotal]

(***************************************************************************)
(* A caller starts a method or reads a property of an idle instance.       *)
(***************************************************************************)
Entry(op) ==
    CASE op = "create" -> "cr_exists"
      [] op = "require_created" -> "rc_test"
      [] op = "manifest" -> "mf_get"
      [] op = "hooks" -> "hk_get"
      [] op = "languages" -> "lg_get"
      [] op = "install" -> "in_start"
      [] op = "require_installed" -> "ri_test"
      [] op = "run_hook" -> "rh_start"

Call(p) ==
    /\ p \in active /\ stk[p] = <<>>
    /\ workload.once => ~total[p].called
    /\ total[p].clones < MaxClones
    /\ total[p].loads < MaxLoads
    /\ total[p].installs < MaxInstalls
    /\ \E op \in workload.ops, i \in Ids, fs \in FileLists :
         /\ op # "run_hook" => (i = "x" /\ fs = <<>>)
         /\ cur' = [cur EXCEPT ![p] = [op |-> op, id |-> i, files |-> fs,
                                       status |-> "running", err |-> "none", result |-> -1]]
         /\ stk' = [stk EXCEPT ![p] = <<Entry(op)>>]
         /\ total' = [total EXCEPT ![p].called = TRUE,
                                   ![p].onlyCreate =
                                       @ /\ op \in {"create", "require_created"}]
    /\ start' = [start EXCEPT ![p] = [dir |-> dir, created |-> created[p],
                                      installed |-> installed[p], markers |-> markers,
                                      cached |-> cached[p],
                                      first |-> ~total[p].called,
                                      prevErr |-> cur[p].err]]
    /\ log' = [log EXCEPT ![p] = NoLog]
    /\ exc' = [exc EXCEPT ![p] = "none"]
    /\ UNCHANGED <<dir, markers, inputVars, created, installed, cached, manifest, hooks,
                   languages, cwd, todo>>

(***************************************************************************)
(* require_created                                                         *)
(***************************************************************************)
\* if self.__created: return / self.create()
rc_test(p) ==
    /\ At(p, "rc_test")
    /\ LET s == IF created[p] THEN Pop(p) ELSE CallThen(p, "rc_set", "cr_exists")
       IN /\ stk' = s
          /\ cur' = Finish(p, s, "none", -1)
    /\ UNCHANGED <<dir, markers, inputVars, created, installed, cached, manifest, hooks,
                   languages, exc, cwd, todo, start, log, total>>

\* self.__created = True
rc_set(p) ==
    /\ At(p, "rc_set")
    /\ created' = [created EXCEPT ![p] = TRUE]
    /\ stk' = Pop(p)
    /\ cur' = Finish(p, stk', "none", -1)
    /\ UNCHANGED <<dir, markers, inputVars, installed, cached, manifest, hooks,
                   languages, exc, cwd, todo, start, log, total>>

(***************************************************************************)
(* create                                                                  *)
(***************************************************************************)
\* mutant of cr_exists: the in-memory flag is asked instead of the disk
cr_exists_asks_flag(p) ==
    /\ At(p, "cr_exists")
    /\ IF created[p]
       THEN /\ stk' = Pop(p)
            /\ cur' = Finish(p, stk', "none", -1)
            /\ cwd' = cwd
       ELSE /\ stk' = Goto(p, "cr_clone")
            /\ cur' = cur
            /\ cwd' = [cwd EXCEPT ![p] = Append(@, "workspace")]
    /\ UNCHANGED <<dir, markers, inputVars, created, installed, cached, manifest, hooks,
                   languages, exc, todo, start, log, total>>

\* the statements of create between its existence test and the end of its fetch
FetchRegion == {"cr_clone", "cr_incheckout", "cr_cwd", "cr_checkout"}

\* the instance is inside the fetch of an unfinished create
InFetch(p) == \E k \in 1..Len(stk[p]) : stk[p][k] \in FetchRegion

\* mutant of cr_exists: the test waits while another process is fetching
cr_exists_locked(p) ==
    /\ At(p, "cr_exists")
    /\ \A q \in active \ {p} : ~InFetch(q)
    /\ IF dir # "absent"
       THEN /\ stk' = Pop(p)
            /\ cur' = Finish(p, stk', "none", -1)
            /\ cwd' = cwd
       ELSE /\ stk' = Goto(p, "cr_clone")
            /\ cur' = cur
            /\ cwd' = [cwd EXCEPT ![p] = in_hooks_workspace(@)]
    /\ UNCHANGED <<dir, markers, inputVars, created, installed, cached, manifest, hooks,
                   languages, exc, todo, start, log, total>>

\* mutant of cr_exists: only a checked-out directory counts as existing
cr_exists_needs_checkout(p) ==
    /\ At(p, "cr_exists")
    /\ IF dir = "ready"
       THEN /\ stk' = Pop(p)
            /\ cur' = Finish(p, stk', "none", -1)
            /\ cwd' = cwd
       ELSE /\ stk' = Goto(p, "cr_clone")
            /\ cur' = cur
            /\ cwd' = [cwd EXCEPT ![p] = in_hooks_workspace(@)]
    /\ UNCHANGED <<dir, markers, inputVars, created, installed, cached, manifest, hooks,
                   languages, exc, todo, start, log, total>>

\* with in_hooks_workspace(): if local.path(self.sha).exists(): return
cr_exists(p) ==
    /\ At(p, "cr_exists")
    /\ IF dir # "absent"
       THEN /\ stk' = Pop(p)
            /\ cur' = Finish(p, stk', "none", -1)
            /\ cwd' = cwd
       ELSE /\ stk' = Goto(p, "cr_clone")
            /\ cur' = cur
            /\ cwd' = [cwd EXCEPT ![p] = in_hooks_workspace(@)]
    /\ UNCHANGED <<dir, markers, inputVars, created, installed, cached, manifest, hooks,
                   languages, exc, todo, start, log, total>>

\* with clean_path_on_failure(...): git clone --no-checkout repo_url sha
cr_clone(p) ==
    /\ At(p, "cr_clone")
    /\ log' = [log EXCEPT ![p].clones = @ + 1]
    /\ total' = [total EXCEPT ![p].clones = @ + 1]
    /\ \/ /\ dir = "absent"
          /\ dir' = "cloned"
          /\ stk' = Goto(p, "cr_incheckout")
          /\ exc' = exc
       \/ /\ dir' \in IF dir = "absent" THEN {"absent", "junk"} ELSE {dir}
          /\ exc' = [exc EXCEPT ![p] = "CloneError"]
          /\ stk' = stk
    /\ UNCHANGED <<markers, inputVars, created, installed, cached, manifest, hooks,
                   languages, cwd, todo, cur, start>>

\* mutant of cr_incheckout: in_checkout does not call require_created
cr_incheckout_no_reentry(p) ==
    /\ At(p, "cr_incheckout")
    /\ stk' = Goto(p, "cr_cwd")
    /\ UNCHANGED <<dir, markers, inputVars, created, installed, cached, manifest, hooks,
                   languages, exc, cwd, todo, cur, start, log, total>>

\* with self.in_checkout(): first self.require_created()
cr_incheckout(p) ==
    /\ At(p, "cr_incheckout")
    /\ stk' = CallThen(p, "cr_cwd", "rc_test")
    /\ UNCHANGED <<dir, markers, inputVars, created, installed, cached, manifest, hooks,
                   languages, exc, cwd, todo, cur, start, log, total>>

\* in_checkout: with in_hooks_workspace(): with local.cwd(self.sha)
cr_cwd(p) ==
    /\ At(p, "cr_cwd")
    /\ IF dir = "absent"
       THEN /\ exc' = [exc EXCEPT ![p] = "CwdError"]
            /\ UNCHANGED <<stk, cwd>>
       ELSE /\ cwd' = [cwd EXCEPT ![p] = local_cwd(in_hooks_workspace(@), "checkout")]
            /\ stk' = Goto(p, "cr_checkout")
            /\ exc' = exc
    /\ UNCHANGED <<dir, markers, inputVars, created, installed, cached, manifest, hooks,
                   languages, todo, cur, start, log, total>>

\* mutant of cr_checkout: the path is cleaned on every exit, not only on failure
cr_checkout_cleans_on_exit(p) ==
    /\ At(p, "cr_checkout")
    /\ total' = [total EXCEPT ![p].checkouts = @ + 1]
    /\ \/ /\ dir \in {"cloned", "ready"}
          /\ dir' = "absent"
          /\ markers' = {}
          /\ cwd' = [cwd EXCEPT ![p] = Front(Front(Front(@)))]
          /\ stk' = Pop(p)
          /\ cur' = Finish(p, stk', "none", -1)
          /\ exc' = exc
       \/ /\ exc' = [exc EXCEPT ![p] = "CheckoutError"]
          /\ UNCHANGED <<dir, markers, cwd, stk, cur>>
    /\ log' = [log EXCEPT ![p].checkouts = @ + 1,
                          ![p].checkoutFailed = exc'[p] # "none"]
    /\ UNCHANGED <<inputVars, created, installed, cached, manifest, hooks,
                   languages, todo, start>>

\* git checkout sha, then the with blocks exit and create returns
cr_checkout(p) ==
    /\ At(p, "cr_checkout")
    /\ total' = [total EXCEPT ![p].checkouts = @ + 1]
    /\ \/ /\ dir \in {"cloned", "ready"}
          /\ dir' = "ready"
          /\ cwd' = [cwd EXCEPT ![p] = exit_context(exit_context(exit_context(@)))]
          /\ stk' = Pop(p)
          /\ cur' = Finish(p, stk', "none", -1)
          /\ exc' = exc
       \/ /\ exc' = [exc EXCEPT ![p] = "CheckoutError"]
          /\ UNCHANGED <<dir, cwd, stk, cur>>
    /\ log' = [log EXCEPT ![p].checkouts = @ + 1,
                          ![p].checkoutFailed = exc'[p] # "none"]
    /\ UNCHANGED <<markers, inputVars, created, installed, cached, manifest, hooks,
                   languages, todo, start>>

(***************************************************************************)
(* manifest (cached property)                                              *)
(***************************************************************************)
\* mutant of mf_get: the stored value is ignored and the property computed anew
mf_get_recomputes(p) ==
    /\ At(p, "mf_get")
    /\ stk' = CallThen(p, "mf_cwd", "rc_test")
    /\ cur' = Finish(p, stk', "none", -1)
    /\ UNCHANGED <<dir, markers, inputVars, created, installed, cached, manifest, hooks,
                   languages, exc, cwd, todo, start, log, total>>

\* a stored value is returned; otherwise with self.in_checkout(): require_created()
mf_get(p) ==
    /\ At(p, "mf_get")
    /\ LET s == IF cached_property(p, "manifest") THEN Pop(p)
                ELSE CallThen(p, "mf_cwd", "rc_test")
       IN /\ stk' = s
          /\ cur' = Finish(p, s, "none", -1)
    /\ UNCHANGED <<dir, markers, inputVars, created, installed, cached, manifest, hooks,
                   languages, exc, cwd, todo, start, log, total>>

\* in_checkout: with in_hooks_workspace(): with local.cwd(self.sha)
mf_cwd(p) ==
    /\ At(p, "mf_cwd")
    /\ IF dir = "absent"
       THEN /\ exc' = [exc EXCEPT ![p] = "CwdError"]
            /\ UNCHANGED <<stk, cwd>>
       ELSE /\ cwd' = [cwd EXCEPT ![p] = local_cwd(in_hooks_workspace(@), "checkout")]
            /\ stk' = Goto(p, "mf_load")
            /\ exc' = exc
    /\ UNCHANGED <<dir, markers, inputVars, created, installed, cached, manifest, hooks,
                   languages, todo, cur, start, log, total>>

\* return dict((hook['id'], hook) for hook in load_manifest(C.MANIFEST_FILE))
mf_load(p) ==
    /\ At(p, "mf_load")
    /\ log' = [log EXCEPT ![p].loads = @ + 1]
    /\ total' = [total EXCEPT ![p].loads = @ + 1]
    /\ IF dir = "ready" /\ manifestFile[1]
       THEN /\ manifest' = [manifest EXCEPT ![p] = ManifestDict(manifestFile[2])]
            /\ cached' = [cached EXCEPT ![p] = @ \cup {"manifest"}]
            /\ cwd' = [cwd EXCEPT ![p] = exit_context(exit_context(@))]
            /\ stk' = Pop(p)
            /\ cur' = Finish(p, stk', "none", -1)
            /\ exc' = exc
       ELSE /\ exc' = [exc EXCEPT ![p] = "ManifestError"]
            /\ UNCHANGED <<manifest, cached, cwd, stk, cur>>
    /\ UNCHANGED <<dir, markers, inputVars, created, installed, hooks, languages, todo,
                   start>>

(***************************************************************************)
(* hooks (cached property)                                                 *)
(***************************************************************************)
\* a stored value is returned; the generator reads self.manifest at its first hook
hk_get(p) ==
    /\ At(p, "hk_get")
    /\ IF cached_property(p, "hooks")
       THEN /\ stk' = Pop(p)
            /\ UNCHANGED <<hooks, cached>>
       ELSE IF repo_config = <<>>
       THEN /\ hooks' = [hooks EXCEPT ![p] = HooksDict(<<>>, EmptyMap)]
            /\ cached' = [cached EXCEPT ![p] = @ \cup {"hooks"}]
            /\ stk' = Pop(p)
       ELSE /\ stk' = CallThen(p, "hk_build", "mf_get")
            /\ UNCHANGED <<hooks, cached>>
    /\ cur' = Finish(p, stk', "none", -1)
    /\ UNCHANGED <<dir, markers, inputVars, created, installed, manifest, languages, exc,
                   cwd, todo, start, log, total>>

\* the declared hooks whose id the manifest has
RECURSIVE Matching(_, _)
Matching(cfg, mf) ==
    IF cfg = <<>> THEN <<>>
    ELSE IF Head(cfg).id \in DOMAIN mf THEN <<Head(cfg)>> \o Matching(Tail(cfg), mf)
    ELSE Matching(Tail(cfg), mf)

\* mutant of hk_build: a declared id the manifest lacks is left out silently
hk_build_partial(p) ==
    /\ At(p, "hk_build")
    /\ hooks' = [hooks EXCEPT ![p] = HooksDict(Matching(repo_config, manifest[p]),
                                                manifest[p])]
    /\ cached' = [cached EXCEPT ![p] = @ \cup {"hooks"}]
    /\ stk' = Pop(p)
    /\ cur' = Finish(p, stk', "none", -1)
    /\ exc' = exc
    /\ UNCHANGED <<dir, markers, inputVars, created, installed, manifest, languages,
                   cwd, todo, start, log, total>>

\* OrderedDict((hook['id'], dict(hook, **self.manifest[hook['id']])) for hook in ...)
hk_build(p) ==
    /\ At(p, "hk_build")
    /\ IF MissingIds(repo_config, manifest[p]) # {}
       THEN /\ exc' = [exc EXCEPT ![p] = "KeyError"]
            /\ UNCHANGED <<hooks, cached, stk, cur>>
       ELSE /\ hooks' = [hooks EXCEPT ![p] = HooksDict(repo_config, manifest[p])]
            /\ cached' = [cached EXCEPT ![p] = @ \cup {"hooks"}]
            /\ stk' = Pop(p)
            /\ cur' = Finish(p, stk', "none", -1)
            /\ exc' = exc
    /\ UNCHANGED <<dir, markers, inputVars, created, installed, manifest, languages,
                   cwd, todo, start, log, total>>

(***************************************************************************)
(* languages (cached property)                                             *)
(***************************************************************************)
lg_get(p) ==
    /\ At(p, "lg_get")
    /\ LET s == IF cached_property(p, "languages") THEN Pop(p)
                ELSE CallThen(p, "lg_build", "hk_get")
       IN /\ stk' = s
          /\ cur' = Finish(p, s, "none", -1)
    /\ UNCHANGED <<dir, markers, inputVars, created, installed, cached, manifest, hooks,
                   languages, exc, cwd, todo, start, log, total>>

\* return set(hook['language'] for hook in self.hooks.values())
lg_build(p) ==
    /\ At(p, "lg_build")
    /\ languages' = [languages EXCEPT ![p] = LanguagesOf(hooks[p])]
    /\ cached' = [cached EXCEPT ![p] = @ \cup {"languages"}]
    /\ stk' = Pop(p)
    /\ cur' = Finish(p, stk', "none", -1)
    /\ UNCHANGED <<dir, markers, inputVars, created, installed, manifest, hooks, exc,
                   cwd, todo, start, log, total>>

(***************************************************************************)
(* install                                                                 *)
(***************************************************************************)
\* self.require_created()
\* mutant of in_start: install does not call require_created first
in_start_skips_require_created(p) ==
    /\ At(p, "in_start")
    /\ stk' = Goto(p, "in_langs")
    /\ UNCHANGED <<dir, markers, inputVars, created, installed, cached, manifest, hooks,
                   languages, exc, cwd, todo, cur, start, log, total>>

in_start(p) ==
    /\ At(p, "in_start")
    /\ stk' = CallThen(p, "in_langs", "rc_test")
    /\ UNCHANGED <<dir, markers, inputVars, created, installed, cached, manifest, hooks,
                   languages, exc, cwd, todo, cur, start, log, total>>

\* repo_cmd_runner = self.get_cmd_runner(cmd_runner); for ... in self.languages
in_langs(p) ==
    /\ At(p, "in_langs")
    /\ stk' = CallThen(p, "in_iter", "lg_get")
    /\ UNCHANGED <<dir, markers, inputVars, created, installed, cached, manifest, hooks,
                   languages, exc, cwd, todo, cur, start, log, total>>

\* the iteration over the set starts
in_iter(p) ==
    /\ At(p, "in_iter")
    /\ todo' = [todo EXCEPT ![p] = languages[p]]
    /\ stk' = Goto(p, "in_loop")
    /\ UNCHANGED <<dir, markers, inputVars, created, installed, cached, manifest, hooks,
                   languages, exc, cwd, cur, start, log, total>>

\* mutant of Skips: an existing marker is not looked for
Skips_none_only(l, mk) == ENVIRONMENT_DIR(l) = "none"

\* mutant of Skips: a backend without ENVIRONMENT_DIR is installed all the same
Skips_marker_only(l, mk) == l \in mk

\* mutant of Skips: every round of the loop installs
Skips_never(l, mk) == FALSE

\* the language is skipped: ENVIRONMENT_DIR is None or repo_cmd_runner.exists(it)
Skips(l, mk) == ENVIRONMENT_DIR(l) = "none" \/ l \in mk

\* one round of the loop (the set is visited in any order), or its end
in_loop(p) ==
    /\ At(p, "in_loop")
    /\ IF todo[p] = {}
       THEN /\ stk' = Pop(p)
            /\ cur' = Finish(p, stk', "none", -1)
            /\ UNCHANGED <<todo, markers, log, total, exc>>
       ELSE \E l \in todo[p] :
            IF Skips(l, markers)
            THEN /\ todo' = [todo EXCEPT ![p] = @ \ {l}]
                 /\ log' = [log EXCEPT ![p].skipped = @ \cup {l}]
                 /\ total' = [total EXCEPT ![p].skipped = @ \cup {l}]
                 /\ UNCHANGED <<markers, exc, stk, cur>>
            ELSE /\ \/ /\ dir # "absent"
                       /\ markers' = markers \cup {l}
                       /\ todo' = [todo EXCEPT ![p] = @ \ {l}]
                       /\ log' = [log EXCEPT ![p].installs = Append(@, l)]
                       /\ UNCHANGED <<exc, stk, cur>>
                    \/ /\ exc' = [exc EXCEPT ![p] = "InstallError"]
                       /\ markers' \in IF dir # "absent" THEN {markers, markers \cup {l}}
                                       ELSE {markers}
                       /\ log' = [log EXCEPT ![p].installs = Append(@, l),
                                             ![p].installFailed = TRUE]
                       /\ UNCHANGED <<todo, stk, cur>>
                 /\ total' = [total EXCEPT
                       ![p].installs = @ + 1,
                       ![p].passed = @ \cup {l},
                       ![p].okInstalls = IF exc'[p] = "none" THEN @ \cup {l} ELSE @,
                       ![p].repeated = @ \cup ({l} \cap total[p].passed),
                       ![p].again = @ \cup ({l} \cap total[p].okInstalls)]
    /\ UNCHANGED <<dir, inputVars, created, installed, cached, manifest, hooks,
                   languages, cwd, start>>

(***************************************************************************)
(* require_installed                                                       *)
(***************************************************************************)
\* mutant of ri_test: the flag is set before install has run
ri_test_sets_first(p) ==
    /\ At(p, "ri_test")
    /\ LET s == IF installed[p] THEN Pop(p) ELSE CallThen(p, "ri_set", "in_start")
       IN /\ stk' = s
          /\ cur' = Finish(p, s, "none", -1)
    /\ installed' = [installed EXCEPT ![p] = TRUE]
    /\ UNCHANGED <<dir, markers, inputVars, created, cached, manifest, hooks,
                   languages, exc, cwd, todo, start, log, total>>

\* if self.__installed: return / self.install(cmd_runner)
ri_test(p) ==
    /\ At(p, "ri_test")
    /\ LET s == IF installed[p] THEN Pop(p) ELSE CallThen(p, "ri_set", "in_start")
       IN /\ stk' = s
          /\ cur' = Finish(p, s, "none", -1)
    /\ UNCHANGED <<dir, markers, inputVars, created, installed, cached, manifest, hooks,
                   languages, exc, cwd, todo, start, log, total>>

\* self.__installed = True
ri_set(p) ==
    /\ At(p, "ri_set")
    /\ installed' = [installed EXCEPT ![p] = TRUE]
    /\ stk' = Pop(p)
    /\ cur' = Finish(p, stk', "none", -1)
    /\ UNCHANGED <<dir, markers, inputVars, created, cached, manifest, hooks,
                   languages, exc, cwd, todo, start, log, total>>

(***************************************************************************)
(* run_hook                                                                *)
(***************************************************************************)
\* self.require_installed(cmd_runner)
\* mutant of rh_start: run_hook goes to the hook lookup without require_installed
rh_start_skips_install(p) ==
    /\ At(p, "rh_start")
    /\ stk' = Goto(p, "rh_lookup")
    /\ UNCHANGED <<dir, markers, inputVars, created, installed, cached, manifest, hooks,
                   languages, exc, cwd, todo, cur, start, log, total>>

rh_start(p) ==
    /\ At(p, "rh_start")
    /\ stk' = CallThen(p, "rh_lookup", "ri_test")
    /\ UNCHANGED <<dir, markers, inputVars, created, installed, cached, manifest, hooks,
                   languages, exc, cwd, todo, cur, start, log, total>>

\* repo_cmd_runner = self.get_cmd_runner(cmd_runner); self.hooks
rh_lookup(p) ==
    /\ At(p, "rh_lookup")
    /\ stk' = CallThen(p, "rh_run", "hk_get")
    /\ UNCHANGED <<dir, markers, inputVars, created, installed, cached, manifest, hooks,
                   languages, exc, cwd, todo, cur, start, log, total>>

\* exit codes a backend's run_hook gives
ExitCodes == {0, 1}

\* mutant of rh_run: a non-zero exit code of the backend is raised
rh_run_raises_nonzero(p) ==
    /\ At(p, "rh_run")
    /\ IF cur[p].id \notin DOMAIN hooks[p].map
       THEN /\ exc' = [exc EXCEPT ![p] = "KeyError"]
            /\ UNCHANGED <<log, stk, cur>>
       ELSE \E rc \in ExitCodes :
            LET hook == hooks[p].map[cur[p].id]
            IN /\ log' = [log EXCEPT ![p].runs =
                            Append(@, [language |-> hook.language, hook |-> hook,
                                       files |-> cur[p].files, result |-> rc])]
               /\ IF rc = 0
                  THEN /\ stk' = Pop(p)
                       /\ cur' = Finish(p, stk', "none", rc)
                       /\ exc' = exc
                  ELSE /\ exc' = [exc EXCEPT ![p] = "RunError"]
                       /\ UNCHANGED <<stk, cur>>
    /\ UNCHANGED <<dir, markers, inputVars, created, installed, cached, manifest, hooks,
                   languages, cwd, todo, start, total>>

\* mutant of rh_run: an unknown id falls back to the first declared hook
rh_run_fallback(p) ==
    /\ At(p, "rh_run")
    /\ IF hooks[p].order = <<>>
       THEN /\ exc' = [exc EXCEPT ![p] = "KeyError"]
            /\ UNCHANGED <<log, stk, cur>>
       ELSE \E rc \in ExitCodes :
            LET i == IF cur[p].id \in DOMAIN hooks[p].map THEN cur[p].id
                     ELSE hooks[p].order[1]
                hook == hooks[p].map[i]
            IN /\ log' = [log EXCEPT ![p].runs =
                            Append(@, [language |-> hook.language, hook |-> hook,
                                       files |-> cur[p].files, result |-> rc])]
               /\ stk' = Pop(p)
               /\ cur' = Finish(p, stk', "none", rc)
               /\ exc' = exc
    /\ UNCHANGED <<dir, markers, inputVars, created, installed, cached, manifest, hooks,
                   languages, cwd, todo, start, total>>

\* hook = self.hooks[hook_id]; return languages[hook['language']].run_hook(...)
rh_run(p) ==
    /\ At(p, "rh_run")
    /\ IF cur[p].id \notin DOMAIN hooks[p].map
       THEN /\ exc' = [exc EXCEPT ![p] = "KeyError"]
            /\ UNCHANGED <<log, stk, cur>>
       ELSE \E rc \in ExitCodes :
            LET hook == hooks[p].map[cur[p].id]
            IN /\ log' = [log EXCEPT ![p].runs =
                            Append(@, [language |-> hook.language, hook |-> hook,
                                       files |-> cur[p].files, result |-> rc])]
               /\ stk' = Pop(p)
               /\ cur' = Finish(p, stk', "none", rc)
               /\ exc' = exc
    /\ UNCHANGED <<dir, markers, inputVars, created, installed, cached, manifest, hooks,
                   languages, cwd, todo, start, total>>

(***************************************************************************)
(* An exception leaves the innermost frame; the with blocks it is in exit. *)
(***************************************************************************)
Raised(p) == p \in active /\ stk[p] # <<>> /\ exc[p] # "none"

\* the exception leaves the last frame: the call has raised
Leave(p) ==
    /\ stk' = Pop(p)
    /\ cur' = Finish(p, stk', exc[p], -1)
    /\ exc' = IF stk'[p] = <<>> THEN [exc EXCEPT ![p] = "none"] ELSE exc
    /\ total' = IF stk'[p] = <<>> THEN [total EXCEPT ![p].raised = TRUE] ELSE total

\* mutant of create_unwind: the fetch is not wrapped in clean_path_on_failure
create_unwind_keeps_path(p) ==
    /\ Raised(p)
    /\ Top(p) \in {"cr_clone", "cr_cwd", "cr_checkout"}
    /\ cwd' = [cwd EXCEPT ![p] = IF Top(p) = "cr_checkout" THEN Front(Front(Front(@)))
                                 ELSE Front(@)]
    /\ Leave(p)
    /\ UNCHANGED <<dir, markers, inputVars, created, installed, cached, manifest, hooks,
                   languages, todo, start, log>>

\* create: clean_path_on_failure and in_hooks_workspace exit (and in_checkout's blocks)
create_unwind(p) ==
    /\ Raised(p)
    /\ Top(p) \in {"cr_clone", "cr_cwd", "cr_checkout"}
    /\ LET left == clean_path_on_failure(dir, markers)
       IN /\ dir' = left[1]
          /\ markers' = left[2]
    /\ cwd' = [cwd EXCEPT ![p] = IF Top(p) = "cr_checkout"
                                 THEN exit_context(exit_context(exit_context(@)))
                                 ELSE exit_context(@)]
    /\ Leave(p)
    /\ UNCHANGED <<inputVars, created, installed, cached, manifest, hooks, languages,
                   todo, start, log>>

\* mutant of manifest_unwind: the with blocks of in_checkout do not exit on failure
manifest_unwind_keeps_cwd(p) ==
    /\ Raised(p)
    /\ Top(p) = "mf_load"
    /\ Leave(p)
    /\ UNCHANGED <<dir, markers, inputVars, created, installed, cached, manifest, hooks,
                   languages, cwd, todo, start, log>>

\* manifest: local.cwd and in_hooks_workspace of in_checkout exit
manifest_unwind(p) ==
    /\ Raised(p)
    /\ Top(p) = "mf_load"
    /\ cwd' = [cwd EXCEPT ![p] = exit_context(exit_context(@))]
    /\ Leave(p)
    /\ UNCHANGED <<dir, markers, inputVars, created, installed, cached, manifest, hooks,
                   languages, todo, start, log>>

\* no with block is open at the statement: the exception goes on to the caller
plain_unwind(p) ==
    /\ Raised(p)
    /\ Top(p) \notin {"cr_clone", "cr_cwd", "cr_checkout", "mf_load"}
    /\ Leave(p)
    /\ UNCHANGED <<dir, markers, inputVars, created, installed, cached, manifest, hooks,
                   languages, cwd, todo, start, log>>

Next ==
    \E p \in Procs :
        \/ Call(p)
        \/ rc_test(p) \/ rc_set(p)
        \/ cr_exists(p) \/ cr_clone(p) \/ cr_incheckout(p) \/ cr_cwd(p) \/ cr_checkout(p)
        \/ mf_get(p) \/ mf_cwd(p) \/ mf_load(p)
        \/ hk_get(p) \/ hk_build(p)
        \/ lg_get(p) \/ lg_build(p)
        \/ in_start(p) \/ in_langs(p) \/ in_iter(p) \/ in_loop(p)
        \/ ri_test(p) \/ ri_set(p)
        \/ rh_start(p) \/ rh_lookup(p) \/ rh_run(p)
        \/ create_unwind(p) \/ manifest_unwind(p) \/ plain_unwind(p)

Spec == Init /\ [][Next]_vars

(***************************************************************************)
(* Two processes, each with its own Repository instance for the same sha   *)
(* and the same hooks workspace, not yet fetched; each makes one call.     *)
(***************************************************************************)
InitConc ==
    /\ manifestFile = <<TRUE, <<[id |-> "x", language |-> "python", args |-> ManifestArgs]>> >>
    /\ repo_config = <<[id |-> "x"]>>
    /\ active = Procs
    /\ workload = [ops |-> {"create", "manifest", "run_hook"}, once |-> TRUE]
    /\ dir = "absent" /\ markers = {}
    /\ disk0 = <<dir, markers>>
    /\ created = [p \in Procs |-> FALSE]
    /\ installed = [p \in Procs |-> FALSE]
    /\ cached = [p \in Procs |-> {}]
    /\ manifest = [p \in Procs |-> EmptyMap]
    /\ hooks = [p \in Procs |-> [order |-> <<>>, map |-> EmptyMap]]
    /\ languages = [p \in Procs |-> {}]
    /\ stk = [p \in Procs |-> <<>>]
    /\ exc = [p \in Procs |-> "none"]
    /\ cwd = [p \in Procs |-> <<>>]
    /\ todo = [p \in Procs |-> {}]
    /\ cur = [p \in Procs |-> NoCall]
    /\ start = [p \in Procs |-> NoStart]
    /\ log = [p \in Procs |-> NoLog]
    /\ total = [p \in Procs |-> NoTotal]

SpecConc == InitConc /\ [][Next]_vars

TypeOK ==
    /\ dir \in {"absent", "junk", "cloned", "ready"}
    /\ markers \subseteq Langs
    /\ \A p \in Procs : cached[p] \subseteq {"manifest", "hooks", "languages"}

(***************************************************************************)
(* Properties.                                                             *)
(***************************************************************************)
\* the call of p has reached its caller, by return or by exception
Done(p) == p \in active /\ stk[p] = <<>> /\ cur[p].status \in {"returned", "raised"}

\* what the manifest file of the checkout declares, by id
FileManifest == ManifestDict(manifestFile[2])

DeclaredIds == {repo_config[k].id : k \in 1..Len(repo_config)}

\* the call of p runs the loop of install
RunsInstall(p) ==
    \/ cur[p].op = "install"
    \/ cur[p].op \in {"require_installed", "run_hook"} /\ ~start[p].installed

\* C1: for every declared hook whose id has a manifest entry, the effective hook
\* holds the override's value for every field of the override and the manifest's
\* value for every other field of the manifest entry.
C1_OverrideWins ==
    \A p \in active :
        "hooks" \in cached[p] =>
            \A k \in 1..Len(repo_config) :
                LET h == repo_config[k]
                    m == FileManifest[h.id]
                    e == hooks[p].map[h.id]
                IN /\ \A f \in DOMAIN h : e[f] = h[f]
                   /\ \A f \in (DOMAIN m) \ (DOMAIN h) : e[f] = m[f]

C3_FailedCheckoutLeavesNoDirectory ==
    \A p \in active :
        (Done(p) /\ log[p].checkoutFailed) =>
            /\ dir = "absent"
            /\ cur[p].status = "raised"
            /\ cur[p].err = "CheckoutError"

C3_Witness ==
    \E p \in active :
        /\ Done(p) /\ log[p].checkoutFailed
        /\ start[p].dir = "absent" /\ log[p].clones = 1

C5_MissingEntryNoHooks ==
    (manifestFile[1] /\ MissingIds(repo_config, FileManifest) # {}) =>
        \A p \in active :
            /\ "hooks" \notin cached[p]
            /\ (Done(p) /\ cur[p].op = "hooks") =>
                  /\ cur[p].status = "raised"
                  /\ "manifest" \in cached[p] => cur[p].err = "KeyError"

C5_Witness ==
    \E p \in active :
        /\ manifestFile[1] /\ MissingIds(repo_config, FileManifest) # {}
        /\ Matching(repo_config, FileManifest) # <<>>
        /\ Done(p) /\ cur[p].op = "hooks" /\ cur[p].err = "KeyError"
        /\ "manifest" \in start[p].cached

\* C6: within a call, a language whose marker exists or whose backend has no
\* marker path is never passed to install_environment, and when the loop of
\* install has ended every other language of languages has been passed to it.
C6_InstallSkip ==
    \A p \in active :
        /\ \A k \in 1..Len(log[p].installs) :
              LET l == log[p].installs[k]
              IN /\ ENVIRONMENT_DIR(l) # "none"
                 /\ l \notin start[p].markers
                 /\ l \in languages[p]
                 /\ l \notin log[p].skipped
        /\ \A l \in log[p].skipped : ENVIRONMENT_DIR(l) = "none" \/ l \in start[p].markers
        /\ (Done(p) /\ cur[p].status = "returned" /\ RunsInstall(p)) =>
              \A l \in languages[p] :
                  IF ENVIRONMENT_DIR(l) = "none" \/ l \in start[p].markers
                  THEN l \in log[p].skipped
                  ELSE \E k \in 1..Len(log[p].installs) : log[p].installs[k] = l

C6_Witness ==
    \E p \in active :
        /\ Done(p) /\ cur[p].status = "returned" /\ cur[p].op = "install"
        /\ Len(log[p].installs) = 1
        /\ \E l \in log[p].skipped : l \in start[p].markers

\* C7: run_hook for a known id calls the run operation of one backend, the one
\* named by the language of hooks[id], once, with hooks[id] and the file list
\* given, and returns its exit code as it is, zero or not.
C7_RunDispatch ==
    \A p \in active :
        cur[p].op = "run_hook" =>
            /\ Len(log[p].runs) <= 1
            /\ log[p].runs # <<>> =>
                  LET r == log[p].runs[1]
                  IN /\ "hooks" \in cached[p] /\ cur[p].id \in DOMAIN hooks[p].map
                     /\ r.language = hooks[p].map[cur[p].id].language
                     /\ r.hook = hooks[p].map[cur[p].id]
                     /\ r.files = cur[p].files
                     /\ exc[p] = "none"
                     /\ cur[p].status = "returned"
                     /\ cur[p].result = r.result
            /\ (Done(p) /\ cur[p].status = "returned") => Len(log[p].runs) = 1

C7_Witness ==
    \E p \in active :
        /\ Done(p) /\ cur[p].op = "run_hook" /\ cur[p].status = "returned"
        /\ cur[p].result = 1 /\ cur[p].files = <<"a.txt">>
        /\ Len(log[p].runs) = 1

\* C8: run_hook for an id that is not declared calls no backend and ends in an
\* error: the lookup's error once installation is done and hooks is computed.
C8_UnknownHookFails ==
    \A p \in active :
        (cur[p].op = "run_hook" /\ cur[p].id \notin DeclaredIds) =>
            /\ log[p].runs = <<>>
            /\ Done(p) =>
                  /\ cur[p].status = "raised"
                  /\ (installed[p] /\ "hooks" \in cached[p]) => cur[p].err = "KeyError"

C8_Witness ==
    \E p \in active :
        /\ Done(p) /\ cur[p].op = "run_hook" /\ cur[p].id \notin DeclaredIds
        /\ cur[p].err = "KeyError" /\ hooks[p].order # <<>> /\ installed[p]

\* C9: a failing install_environment leaves installed false and reaches the
\* caller; the next require_installed or run_hook runs the loop again, skipping
\* the languages whose marker exists and installing the others that have one.
C9_InstallFailureRetried ==
    \A p \in active :
        /\ log[p].installFailed =>
              /\ ~installed[p]
              /\ Done(p) => (cur[p].status = "raised" /\ cur[p].err = "InstallError")
        /\ (start[p].prevErr = "InstallError"
                /\ cur[p].op \in {"require_installed", "run_hook"}) =>
              /\ ~start[p].installed
              /\ \A k \in 1..Len(log[p].installs) :
                    log[p].installs[k] \notin start[p].markers
              /\ installed[p] =>
                    \A l \in languages[p] :
                        IF l \in start[p].markers THEN l \in log[p].skipped
                        ELSE ENVIRONMENT_DIR(l) # "none" =>
                                \E k \in 1..Len(log[p].installs) : log[p].installs[k] = l
              /\ (Done(p) /\ cur[p].op = "require_installed" /\ cur[p].status = "returned")
                    => installed[p]

C9_Witness ==
    \E p \in active :
        /\ start[p].prevErr = "InstallError" /\ cur[p].op = "require_installed"
        /\ Done(p) /\ installed[p] /\ disk0[2] = {}
        /\ log[p].installs # <<>>
        /\ \E l \in log[p].skipped : l \in start[p].markers

\* every declared hook has a manifest entry whose language needs no environment
AllMarkerless ==
    /\ manifestFile[1] /\ repo_config # <<>>
    /\ MissingIds(repo_config, FileManifest) = {}
    /\ \A i \in DeclaredIds : ENVIRONMENT_DIR(FileManifest[i].language) = "none"

\* C10: on a fresh instance with the version not on disk and only marker-less
\* languages declared, the first run_hook for a declared id that returns has
\* invoked clone once, checkout once, install_environment never and one backend
\* run with the file list given.
C10_FirstRunEndToEnd ==
    \A p \in active :
        (start[p].first /\ disk0[1] = "absent" /\ AllMarkerless
                /\ cur[p].op = "run_hook" /\ cur[p].id \in DeclaredIds) =>
            /\ log[p].installs = <<>>
            /\ log[p].clones <= 1 /\ log[p].checkouts <= 1
            /\ (Done(p) /\ cur[p].status = "returned") =>
                  /\ log[p].clones = 1 /\ log[p].checkouts = 1
                  /\ Len(log[p].runs) = 1
                  /\ log[p].runs[1].files = cur[p].files
            /\ (Done(p) /\ cur[p].status = "raised") => log[p].runs = <<>>

C10_Witness ==
    \E p \in active :
        /\ start[p].first /\ disk0[1] = "absent" /\ AllMarkerless
        /\ cur[p].op = "run_hook" /\ cur[p].id \in DeclaredIds
        /\ Done(p) /\ cur[p].status = "returned" /\ cur[p].files = <<"a.txt">>
        /\ log[p].clones = 1 /\ log[p].installs = <<>>

\* C11 as stated: over any sequence of calls on one instance no backend's
\* install_environment is invoked a second time, and an install() call that
\* starts with the installed flag set invokes none.
C11_EachBackendInvokedOnce ==
    \A p \in active :
        /\ total[p].repeated = {}
        /\ (cur[p].op = "install" /\ start[p].installed) => log[p].installs = <<>>

\* C11, amended: no backend's install_environment is invoked again after an
\* invocation of it succeeded (it is invoked again only after its earlier
\* invocations failed), and a call of install(), require_installed() or
\* run_hook() that starts with the installed flag set invokes none.
C11_NoInstallAfterSuccess ==
    \A p \in active :
        /\ total[p].again = {}
        /\ total[p].repeated # {} => total[p].raised
        /\ (cur[p].op \in {"install", "require_installed", "run_hook"}
                /\ start[p].installed) => log[p].installs = <<>>

C11_Witness ==
    \E p \in active :
        /\ Done(p) /\ cur[p].op = "install" /\ cur[p].status = "returned"
        /\ start[p].installed
        /\ total[p].okInstalls # {} /\ total[p].repeated # {}
        /\ log[p].installs = <<>>

\* C12 as stated: over any sequence of operations on one instance load_manifest
\* is invoked at most once.
C12_LoaderInvokedOnce == \A p \in active : total[p].loads <= 1

\* C12, amended: once load_manifest has returned, the mapping is stored and every
\* later access returns it without another load; a load that raised stored
\* nothing, so load_manifest is invoked a second time only after a call raised.
C12_NoReloadOnceLoaded ==
    \A p \in active :
        /\ cached_property(p, "manifest") =>
              /\ manifest[p] = FileManifest
              /\ start[p].first \/ ~total[p].raised => total[p].loads = 1
        /\ "manifest" \in start[p].cached =>
              /\ log[p].loads = 0
              /\ cached_property(p, "manifest")
        /\ log[p].loads <= 1
        /\ total[p].loads > 1 => total[p].raised

C12_Witness ==
    \E p \in active :
        /\ Done(p) /\ cur[p].op = "manifest" /\ cur[p].status = "returned"
        /\ "manifest" \in start[p].cached
        /\ total[p].loads = 1 /\ log[p].loads = 0
        /\ manifest[p] # EmptyMap

\* the operations that require creation
NeedsCreated == {"require_created", "manifest", "install", "run_hook"}

\* C13: when the preceding call on the instance failed in the fetch (at the clone
\* or at the checkout), the next operation that requires creation has invoked
\* the clone again by the time it ends.
C13_FailedFetchRetried ==
    \A p \in active :
        (Done(p) /\ cur[p].op \in NeedsCreated
                /\ start[p].prevErr \in {"CloneError", "CheckoutError"}) =>
            log[p].clones >= 1

\* C14: whenever the created flag of an instance is set, the version directory
\* exists on disk.
C14_CreatedImpliesDirectory == \A p \in active : created[p] => dir # "absent"

\* C15: in every reachable state an installed flag that is set has its created
\* flag set, and no step of any operation, failed ones included, takes a set
\* created or installed flag back to unset.
C15_StrictlyForward ==
    /\ [](\A p \in active : installed[p] => created[p])
    /\ [][\A p \in active : (created[p] => created'[p]) /\ (installed[p] => installed'[p])]_vars

\* an operation failed on an instance whose two flags were set, and they still are
C15_Witness ==
    \E p \in active :
        /\ Done(p) /\ cur[p].status = "raised"
        /\ start[p].installed /\ start[p].created
        /\ installed[p] /\ created[p]

\* the working directories the frame at a statement has entered and not left
Entered(label) ==
    CASE label \in {"cr_clone", "cr_incheckout", "cr_cwd"} -> <<"workspace">>
      [] label = "cr_checkout" -> <<"workspace", "workspace", "checkout">>
      [] label = "mf_load" -> <<"workspace", "checkout">>
      [] OTHER -> <<>>

\* the working context the frames of a stack have built up, outermost first
RECURSIVE EnteredBy(_)
EnteredBy(frames) ==
    IF frames = <<>> THEN <<>> ELSE Entered(Head(frames)) \o EnteredBy(Tail(frames))

\* C16: the operation enclosed by in_checkout (the checkout of create, the
\* manifest load) runs in the version directory, and whenever in_checkout has
\* exited, by return or by failure, the working context is the one in force
\* before it was entered: the context is at every step exactly what the open
\* with blocks of the frames still on the stack entered, and it is the
\* caller's own once the call has ended.
C16_CheckoutContextRestored ==
    \A p \in active :
        /\ cwd[p] = EnteredBy(stk[p])
        /\ (stk[p] # <<>> /\ Top(p) \in {"cr_checkout", "mf_load"}) =>
              (cwd[p] # <<>> /\ cwd[p][Len(cwd[p])] = "checkout")
        /\ stk[p] = <<>> => cwd[p] = <<>>

\* a manifest load failed inside in_checkout and the call has ended
C16_Witness ==
    \E p \in active :
        /\ Done(p) /\ cur[p].err = "ManifestError" /\ log[p].loads = 1
        /\ cwd[p] = <<>>

\* C17: when a backend's run has been invoked by a call, that call is a run_hook
\* whose fetch and install steps are all behind it: the flags are set, the
\* version directory is present and checked out, every language of the
\* instance was skipped by the test of install's loop or installed successfully
\* by the instance (so it has no environment directory or its environment is
\* on disk), and the run is the call's last step (it is the only run and the
\* call has ended).
C17_RunAfterFetchAndInstall ==
    \A p \in active :
        log[p].runs # <<>> =>
            /\ cur[p].op = "run_hook"
            /\ created[p] /\ installed[p]
            /\ dir = "ready"
            /\ cached_property(p, "languages")
            /\ \A l \in languages[p] :
                  /\ l \in total[p].skipped \cup total[p].okInstalls
                  /\ ENVIRONMENT_DIR(l) # "none" => l \in markers
            /\ log[p].runs[1].language \in languages[p]
            /\ Len(log[p].runs) = 1 /\ Done(p)

\* a run_hook call fetched, installed an environment and then ran the hook
C17_Witness ==
    \E p \in active :
        /\ Done(p) /\ cur[p].op = "run_hook" /\ cur[p].status = "returned"
        /\ log[p].clones = 1 /\ log[p].checkouts = 1
        /\ log[p].installs # <<>>
        /\ Len(log[p].runs) = 1

\* C18: with two processes, a process at create's existence test with the
\* version directory absent goes on to the clone whatever the other process is
\* doing, in particular while the other is inside its own fetch, and its clone
\* is then invoked: the existence of the directory is the only guard.
C18_ExistenceIsTheOnlyGuard ==
    \A p \in active :
        /\ (At(p, "cr_exists") /\ dir = "absent") =>
              ENABLED (cr_exists(p) /\ stk' = Goto(p, "cr_clone"))
        /\ At(p, "cr_clone") =>
              ENABLED (cr_clone(p) /\ log'[p].clones = log[p].clones + 1)

\* both processes passed the test of an unfetched version and both invoked the
\* clone, each while the other's create was still running
C18_Witness ==
    /\ active = Procs /\ disk0[1] = "absent"
    /\ \A p \in Procs :
          /\ cur[p].op = "create" /\ start[p].dir = "absent"
          /\ stk[p] # <<>> /\ InFetch(p)
          /\ log[p].clones = 1

\* C19: with two processes, a process at create's existence test that finds the
\* version directory present returns from create as already fetched whatever
\* the other process is doing, also while the other has cloned and not
\* checked out; require_created then sets its flag, and in_checkout enters the
\* directory for the manifest load.
C19_PresentDirectoryCountsAsFetched ==
    \A p \in active :
        /\ (At(p, "cr_exists") /\ dir # "absent") =>
              ENABLED (cr_exists(p) /\ stk' = Pop(p))
        /\ At(p, "rc_set") => ENABLED (rc_set(p) /\ created'[p])
        /\ (At(p, "mf_cwd") /\ dir # "absent") =>
              ENABLED (mf_cwd(p) /\ stk' = Goto(p, "mf_load"))

\* a process that cloned nothing has its flag set and has invoked the manifest
\* load while the other process is between its clone and the end of its checkout
C19_Witness ==
    \E p, q \in active :
        /\ p # q /\ disk0[1] = "absent"
        /\ created[p] /\ total[p].clones = 0 /\ log[p].loads = 1
        /\ InFetch(q) /\ log[q].clones = 1 /\ dir = "cloned"

\* the number of create() calls on the stack of the instance
CreateDepth(p) ==
    Cardinality({k \in 1..Len(stk[p]) : stk[p][k] \in {"cr_exists"} \cup FetchRegion})

\* a variant of a running create() call: the statements left on its longest way out
Rank(p) ==
    IF stk[p] = <<>> THEN 0
    ELSE IF exc[p] # "none" THEN Len(stk[p])
    ELSE CASE Top(p) = "cr_exists" -> IF Len(stk[p]) = 1 THEN 13 ELSE 9
           [] Top(p) = "cr_clone" -> 12
           [] Top(p) = "cr_incheckout" -> 11
           [] Top(p) = "rc_test" -> 10
           [] Top(p) = "rc_set" -> 8
           [] Top(p) = "cr_cwd" -> 7
           [] Top(p) = "cr_checkout" -> 6
           [] OTHER -> 14

\* C20: in one process, create() is on the stack at most twice; a second,
\* nested create() (entered from the first one's in_checkout through
\* require_created, the created flag being unset) stands at its existence test
\* with the directory present, so it returns without clone or checkout; by
\* the time the checkout runs require_created has returned and set the flag; a
\* call invokes the clone at most once and the checkout at most once, exactly
\* once each when the clone succeeded; and every step of a running create()
\* call lowers a natural-number variant, so the call terminates.
C20_NestedCreateReturns ==
    /\ [](\A p \in active :
            /\ CreateDepth(p) <= 2
            /\ CreateDepth(p) = 2 =>
                  (At(p, "cr_exists") /\ dir # "absent" /\ ~created[p]
                      /\ log[p].clones = 1 /\ log[p].checkouts = 0)
            /\ At(p, "cr_checkout") => created[p]
            /\ log[p].clones <= 1 /\ log[p].checkouts <= 1
            /\ (Done(p) /\ cur[p].op = "create" /\ log[p].clones = 1
                    /\ cur[p].err # "CloneError") => log[p].checkouts = 1
            /\ (Done(p) /\ cur[p].op = "create" /\ cur[p].status = "returned"
                    /\ start[p].dir = "absent") =>
                  (log[p].clones = 1 /\ log[p].checkouts = 1 /\ dir = "ready"))
    /\ [][\A p \in active :
            (cur[p].op = "create" /\ stk[p] # <<>>) =>
                \/ stk'[p] = stk[p] /\ exc'[p] = exc[p]
                \/ Rank(p)' < Rank(p)]_vars

\* a create() on an unfetched version has returned after one clone and one
\* checkout, and the nested require_created has set the flag on the way
C20_Witness ==
    \E p \in active :
        /\ Done(p) /\ cur[p].op = "create" /\ cur[p].status = "returned"
        /\ start[p].dir = "absent" /\ ~start[p].created
        /\ log[p].clones = 1 /\ log[p].checkouts = 1
        /\ created[p] /\ dir = "ready"

====
